---- MODULE Spec2Model ----
(***************************************************************************)
(* Proof-of-work engine of the vecno CPU miner: header serialization       *)
(* (pow.rs), seeded hashing (pow/hasher.rs), Uint256 target arithmetic     *)
(* (target.rs) and the block-hash bridge (vecnod_messages.rs).             *)
(*                                                                         *)
(* Representation.  A byte is an integer 0..255 and a byte string is a     *)
(* sequence of bytes.  A hex string is the sequence of its ASCII codes.    *)
(* A u64 that holds hash output (a word of Uint256) is its base-256        *)
(* numeral, most significant digit first (8 digits), because 2^64 is       *)
(* beyond the integers TLC computes with; nonces, timestamps and scores    *)
(* are small naturals.  The compact target (u32) is kept as its two        *)
(* 16-bit halves [hi, lo] for the same reason.                             *)
(* blake3 and sha3 are external crates: they are abstracted by a           *)
(* deterministic digest of the absorbed bytes, one per hash family.        *)
(***************************************************************************)
EXTENDS Integers, Sequences, FiniteSets, Bags, TLC

VARIABLES
    states,     \* worker -> its pow::State (or NoState)
    lastCall,   \* the last call made on the PoW API and what it returned
    panicked,   \* TRUE once a call has panicked (the thread is gone)
    hdrA, hdrB, \* serializer harness: the two headers under comparison
    serOut,     \* serializer harness: what serialize_header did to each
    ua, ub,     \* Uint256 harness: the two operands
    ordOut,     \* Uint256 harness: result of cmp / <=
    cbits,      \* compact-target harness: the compact target [hi, lo]
    ctarget,    \* compact-target harness: decoded target
    caborted,   \* compact-target harness: a `+=` of shl overflowed (abort in a debug build)
    phSeed,     \* PowHasher harness: the (pre_pow_hash, timestamp) the hasher was made from
    ph,         \* PowHasher harness: slot -> PowHasher (the original in slot 1, or a clone)
    phOut,      \* PowHasher harness: the last finalize_with_nonce call and its result
    life        \* State-lifetime harness: one State, the invocations made on it so far

vars ==
    <<states, lastCall, panicked, hdrA, hdrB, serOut, ua, ub, ordOut, cbits, ctarget, caborted,
      phSeed, ph, phOut, life>>

-----------------------------------------------------------------------------
(* Bounds of the model *)

\* nonces tried are 0..MaxNonce
MaxTrials == 3
MaxNonce == 1
\* workers (each holds its own State or clone) are 1..NumWorkers
NumWorkers == 2

(* Program constants *)

\* [u8; 32]: width of every hash and of the decode buffer
HashLen == 32
\* words of a Uint256: [u64; 4]
NumWords == 4
\* bytes of a u64
WordBytes == 8

-----------------------------------------------------------------------------
(* Bytes and little-endian integers *)

Byte == 0..255

\* (appending <<>> makes TLC evaluate a sequence once, where it is built)
Rep(x, n) == [i \in 1..n |-> x] \o <<>>

RECURSIVE LEBytes(_, _)
\* n.to_le_bytes() for an integer type of `width` bytes
LEBytes(n, width) ==
    IF width = 0 THEN <<>> ELSE <<n % 256>> \o LEBytes(n \div 256, width - 1)

Reverse(s) == [i \in 1..Len(s) |-> s[Len(s) + 1 - i]] \o <<>>

\* u64::from_le_bytes(chunk): the numeral of the word, most significant first
U64FromLE(chunk) == Reverse(chunk)
\* word.to_le_bytes()
U64ToLE(word) == Reverse(word)

ZeroWord == Rep(0, WordBytes)

RECURSIVE Pow2(_)
Pow2(n) == IF n = 0 THEN 1 ELSE 2 * Pow2(n - 1)

\* bit k (of weight p = 2^k) of a ^ b
XorBit(a, b, p) == (((a \div p) + (b \div p)) % 2) * p

\* a ^ b on bytes
Xor(a, b) ==
    XorBit(a, b, 1) + XorBit(a, b, 2) + XorBit(a, b, 4) + XorBit(a, b, 8)
    + XorBit(a, b, 16) + XorBit(a, b, 32) + XorBit(a, b, 64) + XorBit(a, b, 128)

-----------------------------------------------------------------------------
(* External hash primitives, abstracted: a digest of the bytes absorbed *)

\* weight of the byte at position i
AbsorbWeight(i) == 1 + ((i * i * 31 + i * 17) % 65521)

\* 32 output bytes of the hash family `tag` over `data`: every byte counts,
\* weighted by its position (the sum of the terms is taken as a bag's size)
Digest(tag, data) ==
    LET terms == [i \in 1..Len(data) |-> 1 + (((data[i] + 1) * AbsorbWeight(i)) % 65521)]
        a == (tag * 40503 + Len(data) * 257 + BagCardinality(terms)) % 65521
    IN  [i \in 1..HashLen |-> (a * (2 * i + 1) + (a \div 256) + i * i) % 256] \o <<>>

TagBlake3 == 1
TagBlake3Keyed == 2
TagSha3 == 3
TagMemHash == 4

-----------------------------------------------------------------------------
(* Hashers of pow/hasher.rs: an accumulator is the bytes absorbed so far *)

\* HeaderHasher::new(): blake3 keyed with BLOCK_HASH_DOMAIN
HeaderHasherNew == [tag |-> TagBlake3Keyed, buf |-> <<>>, panic |-> FALSE]

\* Hasher::update / HeaderHasher::write: absorb `data`; returns the hasher
Update(h, data) == IF h.panic THEN h ELSE [h EXCEPT !.buf = @ \o data]

\* the 32 digest bytes reassembled into 4 little-endian u64 words
WordsOfBytes(bytes) ==
    [i \in 1..NumWords |->
        U64FromLE(SubSeq(bytes, WordBytes * (i - 1) + 1, WordBytes * i))] \o <<>>

\* HeaderHasher::finalize
HeaderHasherFinalize(h) == WordsOfBytes(Digest(h.tag, h.buf))

-----------------------------------------------------------------------------
(* Hex decoding, pow.rs decode_to_slice *)

\* val(c, idx): the nibble of an ASCII hex digit, or an error
HexVal(c) ==
    IF c \in 65..70 THEN [ok |-> TRUE, v |-> c - 65 + 10]
    ELSE IF c \in 97..102 THEN [ok |-> TRUE, v |-> c - 97 + 10]
    ELSE IF c \in 48..57 THEN [ok |-> TRUE, v |-> c - 48]
    ELSE [ok |-> FALSE, v |-> 0]

\* decode_to_slice(data, out) with out.len() = outLen
decode_to_slice(data, outLen) ==
    IF Len(data) % 2 # 0 THEN
        [err |-> "OddLength", out |-> <<>>, index |-> 0]
    ELSE IF Len(data) \div 2 # outLen THEN
        [err |-> "InvalidStringLength", out |-> <<>>, index |-> 0]
    ELSE
        LET bad == {k \in 1..Len(data) : ~HexVal(data[k]).ok}
        IN  IF bad # {} THEN
                [err |-> "InvalidHexCharacter", out |-> <<>>,
                 index |-> (CHOOSE k \in bad : \A j \in bad : k <= j) - 1]
            ELSE
                [err |-> "None",
                 out |-> [i \in 1..outLen |->
                            HexVal(data[2 * i - 1]).v * 16 + HexVal(data[2 * i]).v]
                        \o <<>>,
                 index |-> 0]

-----------------------------------------------------------------------------
(* serialize_header, pow.rs *)

\* a u32 is kept as two 16-bit halves: value = hi * 65536 + lo
U32ToLE(b) == LEBytes(b.lo, 2) \o LEBytes(b.hi, 2)

\* decode_to_slice(field, &mut hash).unwrap(); hasher.update(hash)
UpdateHash32(h, field) ==
    LET d == decode_to_slice(field, HashLen)
    IN  IF h.panic THEN h
        ELSE IF d.err # "None" THEN [h EXCEPT !.panic = TRUE]
        ELSE Update(h, d.out)

\* (variant: only the nonce is zeroed for the pre-PoW hash)
NonceTimestamp_TimestampKept(header, for_pre_pow) ==
    IF for_pre_pow THEN [nonce |-> 0, timestamp |-> header.timestamp]
    ELSE [nonce |-> header.nonce, timestamp |-> header.timestamp]

\* let (nonce, timestamp) = if for_pre_pow { (0, 0) } else { ... }
NonceTimestamp(header, for_pre_pow) ==
    IF for_pre_pow THEN [nonce |-> 0, timestamp |-> 0]
    ELSE [nonce |-> header.nonce, timestamp |-> header.timestamp]

\* version (u16, unwrap of try_into) and the number of parent levels
SerVersion(h, header) ==
    IF h.panic THEN h
    ELSE IF header.version > 65535 THEN [h EXCEPT !.panic = TRUE]
    ELSE Update(Update(h, LEBytes(header.version, 2)), LEBytes(Len(header.parents), 8))

RECURSIVE SerHashes(_, _, _)
\* for hash_string in &parent.parent_hashes { decode; update }
SerHashes(h, hashes, i) ==
    IF i > Len(hashes) THEN h
    ELSE SerHashes(UpdateHash32(h, hashes[i]), hashes, i + 1)

RECURSIVE SerParents(_, _, _)
\* for parent in &header.parents { update(len); hashes }
SerParents(h, parents, i) ==
    IF i > Len(parents) THEN h
    ELSE SerParents(
            SerHashes(Update(h, LEBytes(Len(parents[i]), 8)), parents[i], 1),
            parents, i + 1)

\* (variant: hash_merkle_root is written where accepted_id_merkle_root belongs)
SerRoots_AcceptedIdSkipped(h, header) ==
    UpdateHash32(
        UpdateHash32(
            UpdateHash32(h, header.hash_merkle_root),
            header.hash_merkle_root),
        header.utxo_commitment)

\* hash_merkle_root, accepted_id_merkle_root, utxo_commitment
SerRoots(h, header) ==
    UpdateHash32(
        UpdateHash32(
            UpdateHash32(h, header.hash_merkle_root),
            header.accepted_id_merkle_root),
        header.utxo_commitment)

\* (variant: the nonce is written before bits)
SerScalars_NonceBeforeBits(h, header, nt) ==
    Update(
        Update(
            Update(
                Update(
                    Update(h, LEBytes(nt.timestamp, 8)),
                    LEBytes(nt.nonce, 8)),
                U32ToLE(header.bits)),
            LEBytes(header.daa_score, 8)),
        LEBytes(header.blue_score, 8))

\* the chained updates of timestamp, bits, nonce, daa_score, blue_score
SerScalars(h, header, nt) ==
    Update(
        Update(
            Update(
                Update(
                    Update(h, LEBytes(nt.timestamp, 8)),
                    U32ToLE(header.bits)),
                LEBytes(nt.nonce, 8)),
            LEBytes(header.daa_score, 8)),
        LEBytes(header.blue_score, 8))

\* blue work: odd length is left-padded with '0'; decoded into hash[..len]
SerBlueWork(h, header) ==
    LET blue_work_len == (Len(header.blue_work) + 1) \div 2
        padded == IF Len(header.blue_work) % 2 = 0 THEN header.blue_work
                  ELSE <<48>> \o header.blue_work
        d == decode_to_slice(padded, blue_work_len)
    IN  IF h.panic THEN h
        ELSE IF blue_work_len > HashLen THEN [h EXCEPT !.panic = TRUE]
        ELSE IF d.err # "None" THEN [h EXCEPT !.panic = TRUE]
        ELSE Update(Update(h, LEBytes(blue_work_len, 8)), d.out)

\* pruning point
SerPruning(h, header) == UpdateHash32(h, header.pruning_point)

serialize_header(hasher, header, for_pre_pow) ==
    SerPruning(
        SerBlueWork(
            SerScalars(
                SerRoots(
                    SerParents(SerVersion(hasher, header), header.parents, 1),
                    header),
                header, NonceTimestamp(header, for_pre_pow)),
            header),
        header)

\* RpcBlock::block_hash (vecnod_messages.rs): None without a header
block_hash(block) ==
    IF ~block.has_header THEN [some |-> FALSE, panic |-> FALSE, hash |-> <<>>]
    ELSE LET h == serialize_header(HeaderHasherNew, block.header, FALSE)
         IN  IF h.panic THEN [some |-> FALSE, panic |-> TRUE, hash |-> <<>>]
             ELSE [some |-> TRUE, panic |-> FALSE, hash |-> HeaderHasherFinalize(h)]

-----------------------------------------------------------------------------
(* Uint256, target.rs: 4 little-endian u64 words (index 1 least significant) *)

\* Uint256::from_le_bytes
from_le_bytes(bytes) == WordsOfBytes(bytes)

RECURSIVE ConcatWords(_, _)
ConcatWords(words, i) ==
    IF i > Len(words) THEN <<>> ELSE U64ToLE(words[i]) \o ConcatWords(words, i + 1)

\* Uint256::to_le_bytes / as_bytes
to_le_bytes(u) == ConcatWords(u, 1)

\* Default::default(): all words zero
Uint256Zero == Rep(ZeroWord, NumWords)

\* Uint256::from_u64(init), for init below 2^31
from_u64(init) ==
    [i \in 1..NumWords |-> IF i = 1 THEN U64FromLE(LEBytes(init, WordBytes)) ELSE ZeroWord]
        \o <<>>

RECURSIVE U64CmpFrom(_, _, _)
U64CmpFrom(x, y, k) ==
    IF k > WordBytes THEN "Equal"
    ELSE IF x[k] < y[k] THEN "Less"
    ELSE IF x[k] > y[k] THEN "Greater"
    ELSE U64CmpFrom(x, y, k + 1)

\* u64::cmp on two words
U64Cmp(x, y) == U64CmpFrom(x, y, 1)

RECURSIVE CmpRev(_, _, _)
\* Iterator::cmp over the reversed word arrays: word i, then the words below it
CmpRev(a, b, i) ==
    IF i = 0 THEN "Equal"
    ELSE LET c == U64Cmp(a[i], b[i])
         IN  IF c # "Equal" THEN c ELSE CmpRev(a, b, i - 1)

RECURSIVE CmpFwd(_, _, _)
\* (variant: the words are scanned without .rev(), least significant first)
CmpFwd(a, b, i) ==
    IF i > NumWords THEN "Equal"
    ELSE LET c == U64Cmp(a[i], b[i])
         IN  IF c # "Equal" THEN c ELSE CmpFwd(a, b, i + 1)

Uint256Cmp_LeastSignificantFirst(a, b) == CmpFwd(a, b, 1)

\* impl Ord for Uint256: cmp
Uint256Cmp(a, b) == CmpRev(a, b, NumWords)

\* a <= b through PartialOrd::partial_cmp
Uint256Le(a, b) == Uint256Cmp(a, b) \in {"Less", "Equal"}

\* x << s on a u64 given as little-endian bytes, 0 <= s < 64: high bits dropped
U64ShlLE(le, s) ==
    LET q == s \div 8
        r == s % 8
        src(j) == IF j >= 1 /\ j <= WordBytes THEN le[j] ELSE 0
    IN  [k \in 1..WordBytes |->
            ((src(k - q) * Pow2(r)) % 256) + (src(k - q - 1) \div Pow2(8 - r))] \o <<>>

\* (variant: the bits carried into the next word are lost)
U64ShrLE_CarryLost(le, s) == Rep(0, WordBytes)

\* x >> s on a u64 given as little-endian bytes, 0 < s < 64
U64ShrLE(le, s) ==
    LET q == s \div 8
        r == s % 8
        src(j) == IF j >= 1 /\ j <= WordBytes THEN le[j] ELSE 0
    IN  [k \in 1..WordBytes |->
            (src(k + q) \div Pow2(r)) + ((src(k + q + 1) * Pow2(8 - r)) % 256)] \o <<>>

RECURSIVE AddCarry(_, _, _)
\* carry into byte k of x + y (little-endian bytes)
AddCarry(x, y, k) ==
    IF k = 1 THEN 0 ELSE (x[k - 1] + y[k - 1] + AddCarry(x, y, k - 1)) \div 256

\* x + y on u64 words; overflow is the carry out of the top byte
U64Add(x, y) ==
    LET lx == U64ToLE(x)
        ly == U64ToLE(y)
    IN  [word |-> U64FromLE([k \in 1..WordBytes |->
                        (lx[k] + ly[k] + AddCarry(lx, ly, k)) % 256] \o <<>>),
         overflow |-> AddCarry(lx, ly, WordBytes + 1) = 1]

RECURSIVE ShlLoop(_, _, _, _, _)
\* the loop of shl over i = 0..3 (here i = 1..4); acc = [ret, overflow]
\* (the binding a \in {..} computes one iteration's result before the next)
ShlLoop(original, word_shift, bit_shift, acc, i) ==
    IF i > NumWords THEN acc
    ELSE
        LET j1 == i + word_shift
            s1 == IF bit_shift < 64 /\ j1 <= NumWords
                  THEN U64Add(acc.ret[j1],
                              U64FromLE(U64ShlLE(U64ToLE(original[i]), bit_shift)))
                  ELSE [word |-> ZeroWord, overflow |-> FALSE]
            acc1 == IF bit_shift < 64 /\ j1 <= NumWords
                    THEN [ret |-> [acc.ret EXCEPT ![j1] = s1.word],
                          overflow |-> acc.overflow \/ s1.overflow]
                    ELSE acc
            j2 == i + word_shift + 1
            s2 == IF bit_shift > 0 /\ j2 <= NumWords
                  THEN U64Add(acc1.ret[j2],
                              U64FromLE(U64ShrLE(U64ToLE(original[i]), 64 - bit_shift)))
                  ELSE [word |-> ZeroWord, overflow |-> FALSE]
            acc2 == IF bit_shift > 0 /\ j2 <= NumWords
                    THEN [ret |-> [acc1.ret EXCEPT ![j2] = s2.word],
                          overflow |-> acc1.overflow \/ s2.overflow]
                    ELSE acc1
        IN  CHOOSE r \in {ShlLoop(original, word_shift, bit_shift, a, i + 1) :
                             a \in {acc2}} : TRUE

\* impl Shl<usize> for Uint256: [ret, overflow]; overflow = a `+=` overflowed
ShlFull(u, shift) ==
    ShlLoop(u, shift \div 64, shift % 64,
            [ret |-> Uint256Zero, overflow |-> FALSE], 1)

Shl(u, shift) == ShlFull(u, shift).ret

\* bits >> 24
CompactExponent(bits) == bits.hi \div 256
\* bits & 0xFFFFFF
CompactMantissaField(bits) == (bits.hi % 256) * 65536 + bits.lo

\* the (mant, expt) pair of u256_from_compact_target
CompactMantExpt(bits) ==
    LET unshifted_expt == CompactExponent(bits)
    IN  IF unshifted_expt <= 3
        THEN [mant |-> CompactMantissaField(bits) \div Pow2(8 * (3 - unshifted_expt)),
              expt |-> 0]
        ELSE [mant |-> CompactMantissaField(bits),
              expt |-> 8 * (CompactExponent(bits) - 3)]

u256_from_compact_target(bits) ==
    LET me == CompactMantExpt(bits)
    IN  IF me.mant > 8388607 THEN Uint256Zero
        ELSE Shl(from_u64(me.mant), me.expt)

\* whether a `+=` of the shift in u256_from_compact_target overflowed its u64
CompactShlOverflow(bits) ==
    LET me == CompactMantExpt(bits)
    IN  IF me.mant > 8388607 THEN FALSE
        ELSE ShlFull(from_u64(me.mant), me.expt).overflow

-----------------------------------------------------------------------------
(* PowHasher, pow/hasher.rs *)

\* PowHasher::new(pre_pow_hash, timestamp): prefix absorbed once
PowHasherNew(pre_pow_hash, timestamp) ==
    [tag |-> TagBlake3,
     buf |-> to_le_bytes(pre_pow_hash) \o LEBytes(timestamp, 8) \o Rep(0, 32),
     panic |-> FALSE]

\* (variant: the nonce is absorbed into self.0, not into a clone of it)
finalize_with_nonce_AbsorbsIntoSelf(self, nonce) ==
    LET hasher == Update(self, LEBytes(nonce, 8))
    IN  [self |-> hasher, hash |-> WordsOfBytes(Digest(hasher.tag, hasher.buf))]

\* finalize_with_nonce(&mut self, nonce): works on a clone of self.0;
\* returns self as it is left and the hash
finalize_with_nonce(self, nonce) ==
    LET hasher == Update(self, LEBytes(nonce, 8))
    IN  [self |-> self, hash |-> WordsOfBytes(Digest(hasher.tag, hasher.buf))]

-----------------------------------------------------------------------------
(* The hash pipeline of pow.rs *)

\* sha3_hash(input): Ok(32 bytes)
sha3_hash(input) == Digest(TagSha3, input)

\* blake3_hash(input)
blake3_hash(input) == Digest(TagBlake3, input)

\* u32::from_le_bytes(b) % m for a 4-byte slice b
U32LEMod(b, m) ==
    (((b[3] + 256 * b[4]) % m) * (65536 % m) + (b[1] + 256 * b[2])) % m

\* calculate_rounds(pre_pow_hash, timestamp)
calculate_rounds(pre_pow_hash, timestamp) ==
    LET hash == Digest(TagSha3, pre_pow_hash \o LEBytes(timestamp, 8))
    IN  U32LEMod(SubSeq(hash, 1, 4), 4) + 1

\* bit_manipulations(data): data[i] ^= data[i+1]; data[i+2] ^= data[i+3] per 4-byte lane
bit_manipulations(data) ==
    [k \in 1..HashLen |->
        IF (k - 1) % 4 = 0 \/ (k - 1) % 4 = 2 THEN Xor(data[k], data[k + 1]) ELSE data[k]]
        \o <<>>

\* byte_mixing(sha3_hash, b3_hash)
byte_mixing(sha3, b3) == [k \in 1..HashLen |-> Xor(sha3[k], b3[k])] \o <<>>

\* mem_hash(hash, timestamp, nonce, merkle_root, target): a pure function of
\* its five inputs with a 256-bit output (module mem_hash is not in src/)
mem_hash(hash, timestamp, nonce, merkle_root, target) ==
    WordsOfBytes(Digest(TagMemHash,
        to_le_bytes(hash) \o LEBytes(timestamp, 8) \o LEBytes(nonce, 8)
            \o merkle_root \o to_le_bytes(target)))

RECURSIVE Blake3Loop(_, _, _)
\* for _ in 0..rounds { blake3_hash; bit_manipulations }: [bytes, iters]
\* (the binding next \in {..} computes one iteration's buffer before the next)
Blake3Loop(hash_bytes, rounds, done) ==
    IF done >= rounds THEN [bytes |-> hash_bytes, iters |-> done]
    ELSE CHOOSE r \in {Blake3Loop(next, rounds, done + 1) :
                          next \in {bit_manipulations(blake3_hash(hash_bytes))}} : TRUE

RECURSIVE Sha3Loop(_, _, _)
\* for _ in 0..rounds { sha3_hash; bit_manipulations }: [bytes, iters]
Sha3Loop(hash_bytes, rounds, done) ==
    IF done >= rounds THEN [bytes |-> hash_bytes, iters |-> done]
    ELSE CHOOSE r \in {Sha3Loop(next, rounds, done + 1) :
                          next \in {bit_manipulations(sha3_hash(hash_bytes))}} : TRUE

\* (variant: the nonce is passed where the timestamp belongs)
PowRounds_NonceForTimestamp(self, nonce) == calculate_rounds(self.pre_pow_hash, nonce)

\* the round count calculate_pow passes to both loops
PowRounds(self, nonce) == calculate_rounds(self.pre_pow_hash, self.timestamp)

\* calculate_pow after both loops: byte_mixing, then mem_hash
PowAfterLoops(self, nonce, rounds, l1, l2) ==
    LET b3_hash == l1.bytes
        m_hash == byte_mixing(l2.bytes, b3_hash)
        final_hash == mem_hash(from_le_bytes(m_hash), self.timestamp, nonce,
                               self.merkle_root, self.target)
    IN  [pow |-> from_le_bytes(to_le_bytes(final_hash)),
         rounds |-> rounds, iters1 |-> l1.iters, iters2 |-> l2.iters]

\* calculate_pow after the blake3 loop: the sha3 loop over its result
PowAfterBlake3(self, nonce, rounds, l1) ==
    CHOOSE r \in {PowAfterLoops(self, nonce, rounds, l1, l2) :
                     l2 \in {Sha3Loop(l1.bytes, rounds, 0)}} : TRUE

\* State::calculate_pow(&self, nonce), with the iterations each loop ran
CalculatePowRun(self, nonce) ==
    LET hash == finalize_with_nonce(self.hasher, nonce).hash
        rounds == PowRounds(self, nonce)
    IN  CHOOSE r \in {PowAfterBlake3(self, nonce, rounds, l1) :
                         l1 \in {Blake3Loop(to_le_bytes(hash), rounds, 0)}} : TRUE

calculate_pow(self, nonce) == CalculatePowRun(self, nonce).pow

\* State::check_pow(&self, nonce)
check_pow(self, nonce) == Uint256Le(calculate_pow(self, nonce), self.target)

\* (variant: the clone is returned without the nonce written)
SolvedBlock_NonceNotWritten(self) == self.block

\* the block generate_block_if_pow builds from a clone of self.block
SolvedBlock(self) == [self.block EXCEPT !.header.nonce = self.nonce]

\* (variant: the nonce is written into self.block, not into the clone)
generate_block_if_pow_WritesSelf(self) ==
    IF check_pow(self, self.nonce)
    THEN [self |-> [self EXCEPT !.block.header.nonce = self.nonce],
          some |-> TRUE, block |-> SolvedBlock(self)]
    ELSE [self |-> self, some |-> FALSE, block |-> <<>>]

\* State::generate_block_if_pow(&mut self): [self after the call, returned Option]
generate_block_if_pow(self) ==
    IF check_pow(self, self.nonce)
    THEN [self |-> self, some |-> TRUE, block |-> SolvedBlock(self)]
    ELSE [self |-> self, some |-> FALSE, block |-> <<>>]

\* what State::new invokes: serialize_header once, calculate_rounds never
StateNewInvokes == [serialize_header |-> 1, calculate_rounds |-> 0]

\* what one calculate_pow invokes: calculate_rounds once, serialize_header never
CalculatePowInvokes == [serialize_header |-> 0, calculate_rounds |-> 1]

\* bytes one calculate_pow feeds to the clone of self.hasher
CalculatePowAbsorbs(self, nonce) ==
    Len(Update(self.hasher, LEBytes(nonce, 8)).buf) - Len(self.hasher.buf)

\* State::new(id, block): Ok(State), Err, or a panic inside serialize_header
StateNew(id, block) ==
    IF ~block.has_header THEN [result |-> "Err", state |-> <<>>]
    ELSE
        LET header == block.header
            timestamp == header.timestamp
            target == u256_from_compact_target(header.bits)
            hasher == serialize_header(HeaderHasherNew, header, TRUE)
            pre_pow_hash == HeaderHasherFinalize(hasher)
            d == decode_to_slice(header.hash_merkle_root, HashLen)
        IN  IF hasher.panic THEN [result |-> "Panic", state |-> <<>>]
            ELSE IF d.err # "None" THEN [result |-> "Err", state |-> <<>>]
            ELSE [result |-> "Ok",
                  state |-> [id |-> id,
                             nonce |-> 0,
                             target |-> target,
                             block |-> block,
                             hasher |-> PowHasherNew(pre_pow_hash, timestamp),
                             pre_pow_hash |-> to_le_bytes(pre_pow_hash),
                             timestamp |-> timestamp,
                             merkle_root |-> d.out]]

-----------------------------------------------------------------------------
(* Inputs: hex strings, headers and block templates *)

\* "00..0", "00..01", "aa..a", "AA..A" (64 hex digits each)
H0 == Rep(48, 64)
H1 == Rep(48, 63) \o <<49>>
Ha == Rep(97, 64)
HA == Rep(65, 64)
\* malformed: 63 digits, 62 digits, 66 digits, a 'g' at index 63, a 'g' at index 0
HOdd == Rep(48, 63)
HShort == Rep(48, 62)
HLong == Rep(48, 66)
HBadLast == Rep(48, 63) \o <<103>>
HBadFirst == <<103>> \o Rep(48, 63)

\* 0x207fffff, 0x1d00ffff, 0, 1, 0x01800000
BitsEasy == [hi |-> 8319, lo |-> 65535]
BitsHard == [hi |-> 7424, lo |-> 65535]
BitsZero == [hi |-> 0, lo |-> 0]
BitsOne == [hi |-> 0, lo |-> 1]

BaseHeader ==
    [version |-> 1,
     parents |-> <<<<H0>>>>,
     hash_merkle_root |-> H0,
     accepted_id_merkle_root |-> H0,
     utxo_commitment |-> H0,
     timestamp |-> 0,
     bits |-> BitsEasy,
     nonce |-> 0,
     daa_score |-> 0,
     blue_score |-> 0,
     blue_work |-> <<48>>,
     pruning_point |-> H0]

With(f, v) == [BaseHeader EXCEPT ![f] = v]

\* headers that serialize
GoodHeaders ==
    {BaseHeader}
    \cup {With("version", v) : v \in {0, 2, 65535}}
    \cup {With("parents", p) : p \in {<<>>, <<<<>>>>, <<<<H0, H1>>>>, <<<<H0>>, <<H1>>>>,
                                      <<<<H1>>>>, <<<<HA>>>>, <<<<Ha>>>>}}
    \cup {With("hash_merkle_root", x) : x \in {H1, Ha, HA}}
    \cup {With("accepted_id_merkle_root", x) : x \in {H1}}
    \cup {With("utxo_commitment", x) : x \in {H1}}
    \cup {With("pruning_point", x) : x \in {H1, Ha}}
    \cup {With("timestamp", x) : x \in {1, 256}}
    \cup {With("nonce", x) : x \in {1, 2, 256}}
    \cup {[BaseHeader EXCEPT !.timestamp = 1, !.nonce = 1],
          [BaseHeader EXCEPT !.timestamp = 256, !.nonce = 2],
          [BaseHeader EXCEPT !.bits = BitsOne, !.nonce = 1],
          [BaseHeader EXCEPT !.bits = BitsZero, !.nonce = 1]}
    \cup {With("bits", x) : x \in {BitsHard, BitsZero, BitsOne}}
    \cup {With("daa_score", x) : x \in {1}}
    \cup {With("blue_score", x) : x \in {1}}
    \cup {With("blue_work", x) : x \in {<<>>, <<48, 48>>, <<97>>, <<48, 97>>, <<48, 65>>,
                                        <<97, 98, 99>>, <<49, 48, 48>>, H1, HOdd}}

\* blue-work strings of hex digits longer than the 32-byte buffer
LongBlueWork == {HLong, Rep(48, 65), Rep(102, 66)}

\* headers on which some step of serialize_header fails
BadHeaders ==
    {With("version", 65536)}
    \cup {With("parents", p) : p \in {<<<<HOdd>>>>, <<<<H0>>, <<HBadLast>>>>}}
    \cup {With("hash_merkle_root", x) : x \in {HOdd, HShort, HLong, HBadLast, HBadFirst}}
    \cup {With("accepted_id_merkle_root", x) : x \in {HOdd, HBadLast}}
    \cup {With("utxo_commitment", x) : x \in {HShort, HBadFirst}}
    \cup {With("pruning_point", x) : x \in {HOdd, HLong, HBadLast}}
    \cup {With("blue_work", x) : x \in LongBlueWork \cup {<<103>>, <<48, 103>>}}

HeaderSamples == GoodHeaders \cup BadHeaders

\* an RpcBlock: header is Option<RpcBlockHeader>
Block(h) == [has_header |-> TRUE, header |-> h]
NoHeaderBlock == [has_header |-> FALSE, header |-> BaseHeader]

\* block templates handed to State::new
TemplateSamples ==
    {NoHeaderBlock,
     Block([BaseHeader EXCEPT !.nonce = 256]),
     Block([BaseHeader EXCEPT !.bits = BitsZero, !.timestamp = 256, !.nonce = 1,
                              !.hash_merkle_root = Ha, !.blue_work = <<97, 98, 99>>]),
     Block(With("hash_merkle_root", HOdd)),
     Block(With("hash_merkle_root", HBadLast)),
     Block(With("pruning_point", HShort)),
     Block(With("parents", <<<<H0>>, <<HBadLast>>>>)),
     Block(With("blue_work", HLong))}

Workers == 1..NumWorkers
Nonces == 0..MaxNonce

\* words of the operands of the ordering harness
WordSamples ==
    {ZeroWord,
     [k \in 1..WordBytes |-> IF k = WordBytes THEN 1 ELSE 0],
     [k \in 1..WordBytes |-> IF k = 1 THEN 1 ELSE 0],
     Rep(255, WordBytes)}

Uint256Samples == [1..NumWords -> WordSamples]

\* compact targets: every exponent, mantissa fields around the sign bit
MantissaSamples == {0, 1, 128, 32768, 65535, 8388607, 8388608, 8388609, 16777215, 1193046}
CompactSamples ==
    {[hi |-> e * 256 + (m \div 65536), lo |-> m % 65536] : e \in 0..255, m \in MantissaSamples}

\* pre-PoW hashes and timestamps a PowHasher is seeded with
PrePowSamples ==
    {Uint256Zero, from_u64(1), Rep(Rep(255, WordBytes), NumWords),
     WordsOfBytes(Digest(TagBlake3Keyed, <<>>))}
TimestampSamples == {0, 1, 256, 65536}

\* block templates a State's lifetime is followed for
LifeTemplates ==
    {Block([BaseHeader EXCEPT !.timestamp = t, !.bits = b]) :
        t \in TimestampSamples, b \in {BitsEasy, BitsHard}}

-----------------------------------------------------------------------------
(* State of the harnesses when they are not in use *)

NoState == [none |-> TRUE]
NoCall == [op |-> "none", w |-> 0, arg |-> 0, ret |-> 0]
NoSer == [done |-> FALSE]
NoOrd == [done |-> FALSE]
NoTarget == <<>>
NoHasher == [none |-> TRUE]
NoFinalize == [done |-> FALSE]
NoLife == [built |-> FALSE]

IdlePow == states = [w \in Workers |-> NoState] /\ lastCall = NoCall /\ panicked = FALSE
IdleSer == hdrA = BaseHeader /\ hdrB = BaseHeader /\ serOut = NoSer
IdleOrd == ua = Uint256Zero /\ ub = Uint256Zero /\ ordOut = NoOrd
IdleCompact == cbits = BitsZero /\ ctarget = NoTarget /\ caborted = FALSE
IdleLife == life = NoLife
IdleHasher ==
    /\ phSeed = [pre_pow_hash |-> Uint256Zero, timestamp |-> 0]
    /\ ph = [i \in Workers |-> NoHasher]
    /\ phOut = NoFinalize

powVars == <<states, lastCall, panicked>>
serVars == <<hdrA, hdrB, serOut>>
ordVars == <<ua, ub, ordOut>>
compactVars == <<cbits, ctarget, caborted>>
hasherVars == <<phSeed, ph, phOut>>
lifeVars == <<life>>

-----------------------------------------------------------------------------
(* The PoW API driven by the workers of the miner *)

Init == IdlePow /\ IdleSer /\ IdleOrd /\ IdleCompact /\ IdleHasher /\ IdleLife

HasState(w) == states[w] # NoState

\* no call is in progress and no worker has panicked
Ready == ~panicked /\ lastCall.op = "none"

\* State::new(w, block) for the template the workers are mining
New(w, block) ==
    /\ Ready
    /\ ~HasState(w)
    /\ \A v \in Workers : HasState(v) => states[v].block = block
    /\ LET r == StateNew(w, block)
       IN  /\ states' = IF r.result = "Ok" THEN [states EXCEPT ![w] = r.state] ELSE states
           /\ panicked' = (r.result = "Panic")
           /\ lastCall' = [op |-> "new", w |-> w, arg |-> block, ret |-> r.result]
    /\ UNCHANGED <<serVars, ordVars, compactVars, hasherVars, lifeVars>>

\* #[derive(Clone)]: worker dst takes a clone of src's State
Clone(src, dst) ==
    /\ Ready
    /\ HasState(src)
    /\ ~HasState(dst)
    /\ states' = [states EXCEPT ![dst] = states[src]]
    /\ lastCall' = [op |-> "clone", w |-> dst, arg |-> src, ret |-> 0]
    /\ UNCHANGED <<panicked, serVars, ordVars, compactVars, hasherVars, lifeVars>>

\* the worker writes the public field State.nonce
SetNonce(w, n) ==
    /\ Ready
    /\ HasState(w)
    /\ states[w].nonce # n
    /\ states' = [states EXCEPT ![w].nonce = n]
    /\ lastCall' = [op |-> "set_nonce", w |-> w, arg |-> n, ret |-> 0]
    /\ UNCHANGED <<panicked, serVars, ordVars, compactVars, hasherVars, lifeVars>>

\* state.calculate_pow(n): &self
CalculatePow(w, n) ==
    /\ Ready
    /\ HasState(w)
    /\ lastCall' = [op |-> "calculate_pow", w |-> w, arg |-> n,
                    ret |-> CalculatePowRun(states[w], n)]
    /\ UNCHANGED <<states, panicked, serVars, ordVars, compactVars, hasherVars, lifeVars>>

\* state.check_pow(n): &self
CheckPow(w, n) ==
    /\ Ready
    /\ HasState(w)
    /\ lastCall' = [op |-> "check_pow", w |-> w, arg |-> n, ret |-> check_pow(states[w], n)]
    /\ UNCHANGED <<states, panicked, serVars, ordVars, compactVars, hasherVars, lifeVars>>

\* state.generate_block_if_pow(): &mut self
GenerateBlockIfPow(w) ==
    /\ Ready
    /\ HasState(w)
    /\ LET r == generate_block_if_pow(states[w])
       IN  /\ states' = [states EXCEPT ![w] = r.self]
           /\ lastCall' = [op |-> "generate_block_if_pow", w |-> w, arg |-> states[w].nonce,
                           ret |-> [some |-> r.some, block |-> r.block]]
    /\ UNCHANGED <<panicked, serVars, ordVars, compactVars, hasherVars, lifeVars>>

\* the caller drops the value the last call returned
Return ==
    /\ ~panicked
    /\ lastCall.op # "none"
    /\ lastCall' = NoCall
    /\ UNCHANGED <<states, panicked, serVars, ordVars, compactVars, hasherVars, lifeVars>>

Next ==
    \/ \E w \in Workers, block \in TemplateSamples : New(w, block)
    \/ \E src \in Workers, dst \in Workers : Clone(src, dst)
    \/ \E w \in Workers, n \in Nonces : SetNonce(w, n)
    \/ \E w \in Workers, n \in Nonces : CalculatePow(w, n)
    \/ \E w \in Workers, n \in Nonces : CheckPow(w, n)
    \/ \E w \in Workers : GenerateBlockIfPow(w)
    \/ Return

Spec == Init /\ [][Next]_vars

-----------------------------------------------------------------------------
(* Harness of the header serializer: two headers, serialized the same way *)

InitSer ==
    /\ IdlePow /\ IdleOrd /\ IdleCompact /\ IdleHasher /\ IdleLife
    /\ hdrA \in HeaderSamples
    /\ hdrB \in HeaderSamples
    /\ serOut = NoSer

\* what a run of serialize_header leaves: a panic, or the bytes absorbed
SerResult(h, hash) ==
    IF h.panic THEN [panic |-> TRUE, bytes |-> <<>>, hash |-> <<>>]
    ELSE [panic |-> FALSE, bytes |-> h.buf, hash |-> hash]

\* the pre-PoW hash as State::new computes it
PrePowRun(header) ==
    LET hasher == serialize_header(HeaderHasherNew, header, TRUE)
    IN  SerResult(hasher, HeaderHasherFinalize(hasher))

\* block_hash of the block holding `header`
BlockHashRun(header) ==
    SerResult(serialize_header(HeaderHasherNew, header, FALSE),
              block_hash(Block(header)).hash)

PrePowHash ==
    /\ ~serOut.done
    /\ serOut' = [done |-> TRUE, for_pre_pow |-> TRUE,
                  a |-> PrePowRun(hdrA), b |-> PrePowRun(hdrB)]
    /\ UNCHANGED <<hdrA, hdrB, powVars, ordVars, compactVars, hasherVars, lifeVars>>

BlockHash ==
    /\ ~serOut.done
    /\ serOut' = [done |-> TRUE, for_pre_pow |-> FALSE,
                  a |-> BlockHashRun(hdrA), b |-> BlockHashRun(hdrB)]
    /\ UNCHANGED <<hdrA, hdrB, powVars, ordVars, compactVars, hasherVars, lifeVars>>

NextSer == PrePowHash \/ BlockHash

SpecSer == InitSer /\ [][NextSer]_vars

-----------------------------------------------------------------------------
(* Harness of Uint256 ordering *)

InitOrd ==
    /\ IdlePow /\ IdleSer /\ IdleCompact /\ IdleHasher /\ IdleLife
    /\ ua \in Uint256Samples
    /\ ub \in Uint256Samples
    /\ ordOut = NoOrd

\* a.cmp(&b), b.cmp(&a) and a <= b
Compare ==
    /\ ~ordOut.done
    /\ ordOut' = [done |-> TRUE, cmp |-> Uint256Cmp(ua, ub),
                  rcmp |-> Uint256Cmp(ub, ua), le |-> Uint256Le(ua, ub)]
    /\ UNCHANGED <<ua, ub, powVars, serVars, compactVars, hasherVars, lifeVars>>

NextOrd == Compare

SpecOrd == InitOrd /\ [][NextOrd]_vars

-----------------------------------------------------------------------------
(* Harness of compact-target decoding *)

InitCompact ==
    /\ IdlePow /\ IdleSer /\ IdleOrd /\ IdleHasher /\ IdleLife
    /\ cbits \in CompactSamples
    /\ ctarget = NoTarget
    /\ caborted = FALSE

DecodeCompact ==
    /\ ctarget = NoTarget
    /\ ctarget' = u256_from_compact_target(cbits)
    /\ caborted' = CompactShlOverflow(cbits)
    /\ UNCHANGED <<cbits, powVars, serVars, ordVars, hasherVars, lifeVars>>

NextCompact == DecodeCompact

SpecCompact == InitCompact /\ [][NextCompact]_vars

-----------------------------------------------------------------------------
(* Harness of PowHasher: one seeded hasher, its clones, and the calls on them *)

InitHasher ==
    /\ IdlePow /\ IdleSer /\ IdleOrd /\ IdleCompact /\ IdleLife
    /\ phSeed \in [pre_pow_hash : PrePowSamples, timestamp : TimestampSamples]
    /\ ph = [i \in Workers |->
                IF i = 1 THEN PowHasherNew(phSeed.pre_pow_hash, phSeed.timestamp)
                ELSE NoHasher]
    /\ phOut = NoFinalize

\* #[derive(Clone)] for PowHasher
CloneHasher(src, dst) ==
    /\ ph[src] # NoHasher
    /\ ph[dst] = NoHasher
    /\ ph' = [ph EXCEPT ![dst] = ph[src]]
    /\ UNCHANGED <<phSeed, phOut, powVars, serVars, ordVars, compactVars, lifeVars>>

\* hasher.finalize_with_nonce(nonce) on the hasher in slot i
FinalizeWithNonce(i, nonce) ==
    /\ ph[i] # NoHasher
    /\ LET r == finalize_with_nonce(ph[i], nonce)
       IN  /\ ph' = [ph EXCEPT ![i] = r.self]
           /\ phOut' = [done |-> TRUE, slot |-> i, nonce |-> nonce, hash |-> r.hash,
                        prev |-> IF phOut.done THEN phOut.nonce ELSE -1]
    /\ UNCHANGED <<phSeed, powVars, serVars, ordVars, compactVars, lifeVars>>

NextHasher ==
    \/ \E src \in Workers, dst \in Workers : CloneHasher(src, dst)
    \/ \E i \in Workers, nonce \in Nonces : FinalizeWithNonce(i, nonce)

SpecHasher == InitHasher /\ [][NextHasher]_vars

-----------------------------------------------------------------------------
(* Harness of one State's lifetime: State::new, then nonce trials on it *)

\* State::new(1, block) for a well-formed template
InitLife ==
    /\ IdlePow /\ IdleSer /\ IdleOrd /\ IdleCompact /\ IdleHasher
    /\ \E block \in LifeTemplates :
           life = [built |-> TRUE,
                   state |-> StateNew(1, block).state,
                   invoked |-> StateNewInvokes,
                   trials |-> 0, op |-> "new", nonce |-> 0, prev |-> 0,
                   rounds |-> 0, absorbed |-> 0, pow |-> Uint256Zero, ok |-> FALSE]

\* the trial's bookkeeping: self is not written, the invocations add up
Trial(op, nonce, run, ok) ==
    [life EXCEPT !.invoked = [f \in DOMAIN @ |-> @[f] + CalculatePowInvokes[f]],
                 !.trials = @ + 1, !.op = op, !.nonce = nonce, !.prev = life.nonce,
                 !.rounds = run.rounds,
                 !.absorbed = CalculatePowAbsorbs(life.state, nonce),
                 !.pow = run.pow, !.ok = ok]

\* state.calculate_pow(nonce)
LifeCalculatePow(nonce) ==
    /\ life.built
    /\ life.trials < MaxTrials
    /\ life' = Trial("calculate_pow", nonce, CalculatePowRun(life.state, nonce), FALSE)
    /\ UNCHANGED <<powVars, serVars, ordVars, compactVars, hasherVars>>

\* state.check_pow(nonce)
LifeCheckPow(nonce) ==
    /\ life.built
    /\ life.trials < MaxTrials
    /\ life' = Trial("check_pow", nonce, CalculatePowRun(life.state, nonce),
                     check_pow(life.state, nonce))
    /\ UNCHANGED <<powVars, serVars, ordVars, compactVars, hasherVars>>

NextLife ==
    \/ \E nonce \in Nonces : LifeCalculatePow(nonce)
    \/ \E nonce \in Nonces : LifeCheckPow(nonce)

SpecLife == InitLife /\ [][NextLife]_vars

-----------------------------------------------------------------------------
(* Reference notions the properties are stated with *)

HexChars == (48..57) \cup (65..70) \cup (97..102)
IsHex(str) == \A k \in 1..Len(str) : str[k] \in HexChars

\* a 32-byte hex field is well formed: 64 hex digits
WellFormedHash32(str) == Len(str) = 64 /\ IsHex(str)

HeaderFields ==
    {"version", "parents", "hash_merkle_root", "accepted_id_merkle_root",
     "utxo_commitment", "timestamp", "bits", "nonce", "daa_score", "blue_score",
     "blue_work", "pruning_point"}

\* some fixed 32-byte hex field of the header is malformed
MalformedHash32(h) ==
    \/ \E f \in {h.hash_merkle_root, h.accepted_id_merkle_root, h.utxo_commitment,
                 h.pruning_point} : ~WellFormedHash32(f)
    \/ \E i \in 1..Len(h.parents) :
        \E j \in 1..Len(h.parents[i]) : ~WellFormedHash32(h.parents[i][j])

RECURSIVE Borrow(_, _, _)
\* the borrow out of byte k when y - x is computed on little-endian bytes
Borrow(x, y, k) ==
    IF k = 0 THEN 0
    ELSE IF y[k] - x[k] - Borrow(x, y, k - 1) < 0 THEN 1 ELSE 0

\* a <= b as 256-bit numbers: b - a does not borrow out of the top byte
NumericLe(a, b) == Borrow(to_le_bytes(a), to_le_bytes(b), NumWords * WordBytes) = 0

\* x < y as 64-bit numbers
WordLess(x, y) == Borrow(U64ToLE(y), U64ToLE(x), WordBytes) = 1

\* the value of a hex digit, and the bytes a string of hex digits denotes
Nibble(c) == IF c \in 48..57 THEN c - 48 ELSE IF c \in 97..102 THEN c - 87 ELSE c - 55
Unhex(str) ==
    [i \in 1..(Len(str) \div 2) |-> 16 * Nibble(str[2 * i - 1]) + Nibble(str[2 * i])] \o <<>>

\* the w little-endian bytes of n, for n below 2^31
LE(n, w) == [k \in 1..w |-> IF k > 4 THEN 0 ELSE (n \div Pow2(8 * (k - 1))) % 256] \o <<>>

\* the 4 little-endian bytes of the compact bits
LEBits(b) == <<b.lo % 256, b.lo \div 256, b.hi % 256, b.hi \div 256>>

\* a blue-work string with its odd length made even by one leading '0'
PadEven(str) == IF Len(str) % 2 = 1 THEN <<48>> \o str ELSE str

RECURSIVE LayoutLevel(_, _)
LayoutLevel(level, j) ==
    IF j > Len(level) THEN <<>> ELSE Unhex(level[j]) \o LayoutLevel(level, j + 1)

RECURSIVE LayoutParents(_, _)
LayoutParents(parents, i) ==
    IF i > Len(parents) THEN <<>>
    ELSE LE(Len(parents[i]), 8) \o LayoutLevel(parents[i], 1) \o LayoutParents(parents, i + 1)

\* the bytes before the timestamp: version, parents, the three roots
LayoutHead(h) ==
    LE(h.version, 2) \o LE(Len(h.parents), 8) \o LayoutParents(h.parents, 1)
        \o Unhex(h.hash_merkle_root) \o Unhex(h.accepted_id_merkle_root)
        \o Unhex(h.utxo_commitment)

\* the bytes after timestamp, nonce and bits: scores, blue work, pruning point
LayoutTail(h) ==
    LE(h.daa_score, 8) \o LE(h.blue_score, 8)
        \o LE((Len(h.blue_work) + 1) \div 2, 8) \o Unhex(PadEven(h.blue_work))
        \o Unhex(h.pruning_point)

\* the layout with timestamp, nonce, bits in that order
LayoutNonceThenBits(h, timestamp, nonce) ==
    LayoutHead(h) \o LE(timestamp, 8) \o LE(nonce, 8) \o LEBits(h.bits) \o LayoutTail(h)

\* the layout with timestamp, bits, nonce in that order
LayoutBitsThenNonce(h, timestamp, nonce) ==
    LayoutHead(h) \o LE(timestamp, 8) \o LEBits(h.bits) \o LE(nonce, 8) \o LayoutTail(h)

\* the header as the values its strings denote
Decoded(h) ==
    [version |-> h.version,
     parents |-> [i \in 1..Len(h.parents) |->
                    [j \in 1..Len(h.parents[i]) |-> Unhex(h.parents[i][j])] \o <<>>] \o <<>>,
     hash_merkle_root |-> Unhex(h.hash_merkle_root),
     accepted_id_merkle_root |-> Unhex(h.accepted_id_merkle_root),
     utxo_commitment |-> Unhex(h.utxo_commitment),
     timestamp |-> h.timestamp,
     bits |-> h.bits,
     nonce |-> h.nonce,
     daa_score |-> h.daa_score,
     blue_score |-> h.blue_score,
     blue_work |-> Unhex(PadEven(h.blue_work)),
     pruning_point |-> Unhex(h.pruning_point)]

\* the two headers agree on every field but nonce and timestamp
SameButNonceTimestamp(g, h) ==
    \A f \in HeaderFields \ {"nonce", "timestamp"} : g[f] = h[f]

\* the most significant word where a and b differ is smaller in a
SmallerAtHighestDifference(a, b) ==
    \E i \in 1..NumWords :
        /\ a[i] # b[i]
        /\ \A j \in (i + 1)..NumWords : a[j] = b[j]
        /\ WordLess(a[i], b[i])

\* the mantissa of a compact target: the 24-bit field, less its low 3-e bytes when e <= 3
MantissaOf(bits) ==
    LET e == bits.hi \div 256
        field == (bits.hi % 256) * 65536 + bits.lo
    IN  IF e = 0 THEN 0
        ELSE IF e = 1 THEN field \div 65536
        ELSE IF e = 2 THEN field \div 256
        ELSE field

\* the whole bytes a compact target's mantissa is shifted left by: e - 3, or 0
ShiftBytesOf(bits) == IF bits.hi \div 256 <= 3 THEN 0 ELSE (bits.hi \div 256) - 3

\* the 32 little-endian bytes of (m * 2^(8q)) mod 2^256, for m below 2^24
ShiftedMod256(m, q) ==
    [k \in 1..(NumWords * WordBytes) |->
        IF k - 1 = q THEN m % 256
        ELSE IF k - 1 = q + 1 THEN (m \div 256) % 256
        ELSE IF k - 1 = q + 2 THEN m \div 65536
        ELSE 0] \o <<>>

\* the bytes a hasher seeded with (pre_pow_hash, timestamp) has absorbed
SeedBytes(seed) ==
    to_le_bytes(seed.pre_pow_hash) \o LE(seed.timestamp, 8) \o Rep(0, 32)

\* the hash, from scratch, of seed bytes and nonce: 32 bytes read as 4 LE words
FromScratch(seed, nonce) ==
    LET bytes == Digest(TagBlake3, SeedBytes(seed) \o LE(nonce, 8))
    IN  [i \in 1..4 |-> Reverse(SubSeq(bytes, 8 * i - 7, 8 * i))] \o <<>>

PureCalls == {"calculate_pow", "check_pow", "generate_block_if_pow"}

-----------------------------------------------------------------------------
(* Properties of the PoW API (specification Spec) *)

\* C1: generate_block_if_pow returns a block iff calculate_pow(current nonce) <= target
\* (i.e. check_pow(current nonce)); the returned block carries the current nonce in its
\* header and equals the stored template in every other field.
C1_GenerateIffPow ==
    lastCall.op = "generate_block_if_pow" =>
        LET s == states[lastCall.w]
            r == lastCall.ret
        IN  /\ s.nonce = lastCall.arg
            /\ r.some <=> NumericLe(calculate_pow(s, lastCall.arg), s.target)
            /\ r.some <=> check_pow(s, lastCall.arg)
            /\ r.some =>
                /\ r.block.has_header = s.block.has_header
                /\ r.block.header.nonce = lastCall.arg
                /\ \A f \in HeaderFields \ {"nonce"} :
                        r.block.header[f] = s.block.header[f]

\* C1 witness: a block was returned whose nonce differs from the template's
C1_Witness ==
    /\ lastCall.op = "generate_block_if_pow"
    /\ lastCall.ret.some
    /\ lastCall.ret.block.header.nonce # states[lastCall.w].block.header.nonce

\* C3 (as claimed): a malformed 32-byte hex field makes State::new return Err,
\* without a panic and without producing a State.
C3_MalformedHexIsErr ==
    (lastCall.op = "new" /\ lastCall.arg.has_header /\ MalformedHash32(lastCall.arg.header))
        => (lastCall.ret = "Err" /\ ~panicked)

\* C3 witness: State::new was given a header with a malformed 32-byte field and panicked
C3_Witness ==
    /\ lastCall.op = "new"
    /\ lastCall.arg.has_header
    /\ MalformedHash32(lastCall.arg.header)
    /\ panicked

\* C8: calculate_pow, check_pow and generate_block_if_pow leave every State as it was,
\* whatever calls the workers interleave on a State and its clones; and the value
\* calculate_pow returned is the value it has on every other State of the template.
C8_NoSideEffects ==
    /\ [][(lastCall.op = "none" /\ lastCall'.op \in PureCalls) => states' = states]_vars
    /\ [](lastCall.op = "calculate_pow" =>
            \A w \in Workers :
                HasState(w) => calculate_pow(states[w], lastCall.arg) = lastCall.ret.pow)

\* C8 witness: a block was generated while another worker holds a State at another nonce
C8_Witness ==
    /\ lastCall.op = "generate_block_if_pow"
    /\ lastCall.ret.some
    /\ states[lastCall.w].block.header.nonce # lastCall.arg
    /\ \E w \in Workers :
        w # lastCall.w /\ HasState(w) /\ states[w].nonce # states[lastCall.w].nonce

\* C9: the round count of calculate_pow depends on the pre-PoW hash and the timestamp
\* only: both loops run it, it is the same for every nonce, and it is in 1..4 (the first
\* four digest bytes, little-endian, mod 4, plus 1).
C9_RoundsNonceIndependent ==
    lastCall.op = "calculate_pow" =>
        LET s == states[lastCall.w]
            r == lastCall.ret
            digest == Digest(TagSha3, s.pre_pow_hash \o LEBytes(s.timestamp, 8))
        IN  /\ r.rounds \in 1..4
            /\ r.rounds = (digest[1] % 4) + 1
            /\ r.iters1 = r.rounds
            /\ r.iters2 = r.rounds
            /\ \A n \in Nonces :
                LET q == CalculatePowRun(s, n)
                IN  q.rounds = r.rounds /\ q.iters1 = r.rounds /\ q.iters2 = r.rounds

\* C9 witness: calculate_pow ran with a non-zero nonce and more than one round
C9_Witness ==
    /\ lastCall.op = "calculate_pow"
    /\ lastCall.arg # 0
    /\ lastCall.ret.rounds > 1

-----------------------------------------------------------------------------
(* Properties of serialize_header (specification SpecSer) *)

\* the bytes a completed run fed to the hasher are the layout L of its header
RunHasLayout(run, h, L(_, _, _)) ==
    ~run.panic =>
        run.bytes = IF serOut.for_pre_pow THEN L(h, 0, 0) ELSE L(h, h.timestamp, h.nonce)

\* C2 (as claimed): serialize_header writes version, parent-level count, each level's
\* count and hashes, the three roots, timestamp, nonce, bits, DAA score, blue score,
\* blue-work length and bytes, pruning point: timestamp and nonce adjacent, before bits.
C2_NonceBeforeBits ==
    serOut.done =>
        /\ RunHasLayout(serOut.a, hdrA, LayoutNonceThenBits)
        /\ RunHasLayout(serOut.b, hdrB, LayoutNonceThenBits)

\* C2 (amended): serialize_header writes version, parent-level count, each level's
\* count and hashes, the three roots, timestamp, bits, nonce, DAA score, blue score,
\* blue-work length and bytes, pruning point: bits lies between timestamp and nonce.
C2_BitsBeforeNonce ==
    serOut.done =>
        /\ RunHasLayout(serOut.a, hdrA, LayoutBitsThenNonce)
        /\ RunHasLayout(serOut.b, hdrB, LayoutBitsThenNonce)

\* C2 witness: a header with parents, a non-zero nonce and non-zero bits was serialized
C2_Witness ==
    /\ serOut.done
    /\ ~serOut.for_pre_pow
    /\ ~serOut.a.panic
    /\ hdrA.nonce # 0
    /\ hdrA.bits # BitsZero
    /\ Len(hdrA.parents) > 0

\* C5 (as claimed): for a blue-work string of hex digits of any length serialize_header
\* succeeds and writes the 8-byte count ceil(len/2) and that many bytes, the decoding of
\* the string left-padded with '0' when its length is odd.
C5_BlueWorkAnyLength ==
    (/\ serOut.done
     /\ IsHex(hdrA.blue_work)
     /\ ~MalformedHash32(hdrA)
     /\ hdrA.version <= 65535)
        => /\ ~serOut.a.panic
           /\ LET off == Len(LayoutHead(hdrA)) + 36
                   n == (Len(hdrA.blue_work) + 1) \div 2
               IN  /\ Len(serOut.a.bytes) = off + 8 + n + HashLen
                   /\ SubSeq(serOut.a.bytes, off + 1, off + 8 + n)
                        = LE(n, 8) \o Unhex(PadEven(hdrA.blue_work))

\* C5 witness: a blue-work string of more than 64 hex digits made serialize_header panic
C5_Witness ==
    /\ serOut.done
    /\ IsHex(hdrA.blue_work)
    /\ Len(hdrA.blue_work) > 2 * HashLen
    /\ ~MalformedHash32(hdrA)
    /\ serOut.a.panic

\* C6 (as claimed): with for_pre_pow = false two headers feed identical bytes to the
\* hasher exactly when they agree on every field; headers that differ in a field (e.g.
\* in the blue-work string) never serialize to the same bytes.
C6_BytesEqualIffFieldsEqual ==
    (serOut.done /\ ~serOut.for_pre_pow /\ ~serOut.a.panic /\ ~serOut.b.panic) =>
        (serOut.a.bytes = serOut.b.bytes <=> \A f \in HeaderFields : hdrA[f] = hdrB[f])

\* C6 (amended): with for_pre_pow = false two headers that both serialize feed identical
\* bytes to the hasher (and so have one block_hash) exactly when they agree on the
\* values their fields denote: hex digits read without regard to case, and an
\* odd-length blue-work string read with one leading '0'.
C6_BytesEqualIffDecodedEqual ==
    (serOut.done /\ ~serOut.for_pre_pow /\ ~serOut.a.panic /\ ~serOut.b.panic) =>
        /\ serOut.a.bytes = serOut.b.bytes <=> Decoded(hdrA) = Decoded(hdrB)
        /\ serOut.a.bytes = serOut.b.bytes => serOut.a.hash = serOut.b.hash

\* C6 witness: two headers with different blue-work strings serialized to the same bytes
C6_Witness ==
    /\ serOut.done
    /\ ~serOut.for_pre_pow
    /\ ~serOut.a.panic
    /\ ~serOut.b.panic
    /\ hdrA.blue_work # hdrB.blue_work
    /\ serOut.a.bytes = serOut.b.bytes

\* C7: with for_pre_pow = true headers that differ only in nonce and timestamp feed the
\* same bytes to the hasher, both fields written as 0, and State::new computes one
\* pre-PoW hash for both; with for_pre_pow = false the header's own timestamp and nonce
\* are written.
C7_PrePowIgnoresNonceTimestamp ==
    (serOut.done /\ ~serOut.a.panic) =>
        LET off == Len(LayoutHead(hdrA))
            zeroed == [hdrA EXCEPT !.nonce = 0, !.timestamp = 0]
        IN  /\ SubSeq(serOut.a.bytes, off + 1, off + 8)
                    = LE(IF serOut.for_pre_pow THEN 0 ELSE hdrA.timestamp, 8)
            /\ SubSeq(serOut.a.bytes, off + 13, off + 20)
                    = LE(IF serOut.for_pre_pow THEN 0 ELSE hdrA.nonce, 8)
            /\ serOut.for_pre_pow =>
                    serOut.a.bytes = serialize_header(HeaderHasherNew, zeroed, FALSE).buf
            /\ (serOut.for_pre_pow /\ SameButNonceTimestamp(hdrA, hdrB)) =>
                    /\ serOut.b = serOut.a
                    /\ StateNew(1, Block(hdrA)).state.pre_pow_hash = to_le_bytes(serOut.a.hash)
                    /\ StateNew(1, Block(hdrB)).state.pre_pow_hash = to_le_bytes(serOut.a.hash)

\* C7 witness: the pre-PoW hash was taken of two headers whose nonces and timestamps differ
C7_Witness ==
    /\ serOut.done
    /\ serOut.for_pre_pow
    /\ ~serOut.a.panic
    /\ SameButNonceTimestamp(hdrA, hdrB)
    /\ hdrA.nonce # hdrB.nonce
    /\ hdrA.timestamp # hdrB.timestamp

-----------------------------------------------------------------------------
(* Properties of u256_from_compact_target (specification SpecCompact) *)

\* C4 (as claimed): a compact target whose mantissa field has the bit 0x800000 set
\* decodes to the zero Uint256, whatever the exponent field.
C4_TopBitMantissaIsZero ==
    (ctarget # NoTarget /\ CompactMantissaField(cbits) >= 8388608) => ctarget = Uint256Zero

\* C4 witness: bits = 0x01800000 decoded to 0x80
C4_Witness ==
    /\ cbits = [hi |-> 384, lo |-> 0]
    /\ ctarget = from_u64(128)

\* C11: with e = bits >> 24 the mantissa is the 24-bit field shifted right by 8*(3-e)
\* and not shifted left when e <= 3, and the field shifted left by 8*(e-3) when e > 3;
\* when the mantissa is <= 0x7FFFFF the result is (mantissa * 2^shift) mod 2^256: bits
\* past bit 255 are dropped, no carry between words is lost, nothing aborts; bits = 0
\* yields zero.
C11_CompactIsShiftedMantissa ==
    ctarget # NoTarget =>
        /\ ~caborted
        /\ CompactMantExpt(cbits).mant = MantissaOf(cbits)
        /\ CompactMantExpt(cbits).expt = 8 * ShiftBytesOf(cbits)
        /\ MantissaOf(cbits) <= 8388607 =>
                to_le_bytes(ctarget) = ShiftedMod256(MantissaOf(cbits), ShiftBytesOf(cbits))
        /\ cbits = BitsZero => ctarget = Uint256Zero

\* C11 witness: a mantissa was shifted across a word boundary (0x0a123456: bytes 7..9)
C11_Witness ==
    /\ cbits = [hi |-> 2578, lo |-> 13398]
    /\ ctarget # NoTarget
    /\ ctarget[1] # ZeroWord
    /\ ctarget[2] # ZeroWord

-----------------------------------------------------------------------------
(* Properties of PowHasher (specification SpecHasher) *)

\* C12: finalize_with_nonce leaves the seeded accumulator as it was: after any calls
\* with any nonces on a PowHasher and its clones, every hasher still holds the seed
\* bytes only, and each call's result is the from-scratch hash of pre_pow_hash,
\* timestamp (8 LE), 32 zero bytes and that call's nonce (8 LE), read as 4 LE words.
C12_FinalizeKeepsSeed ==
    /\ \A i \in Workers : ph[i] # NoHasher => ph[i].buf = SeedBytes(phSeed)
    /\ phOut.done => phOut.hash = FromScratch(phSeed, phOut.nonce)

\* C12 witness: a call followed a call with another nonce, a clone of the hasher exists
C12_Witness ==
    /\ phOut.done
    /\ phOut.prev >= 0
    /\ phOut.prev # phOut.nonce
    /\ \E i \in Workers : i # phOut.slot /\ ph[i] # NoHasher

-----------------------------------------------------------------------------
(* Properties of a State's lifetime (specification SpecLife) *)

\* C13: over the lifetime of a State (State::new, then any number of calculate_pow and
\* check_pow calls) the round derivation calculate_rounds is invoked exactly once, not
\* once per nonce trial, and no trial serializes the header again or feeds the hasher
\* more than the 8 bytes of its nonce.
C13_RoundsDerivedOnce ==
    life.built =>
        /\ life.invoked.calculate_rounds <= 1
        /\ life.trials >= 1 => life.invoked.calculate_rounds = 1
        /\ life.invoked.serialize_header = 1
        /\ life.trials >= 1 => life.absorbed = 8

\* C13 witness: a second trial, with another nonce, has derived the rounds a second time
C13_Witness ==
    /\ life.built
    /\ life.trials = 2
    /\ life.prev # life.nonce
    /\ life.invoked.calculate_rounds = 2
    /\ life.invoked.serialize_header = 1

-----------------------------------------------------------------------------
(* Properties of the Uint256 ordering (specification SpecOrd) *)

\* C10: a <= b iff a = b or a's word is the smaller one at the most significant word
\* where they differ, iff the 256-bit value of a is at most that of b; and exactly one
\* of a < b, a = b, a > b holds.
C10_NumericOrder ==
    ordOut.done =>
        /\ ordOut.le <=> (ua = ub \/ SmallerAtHighestDifference(ua, ub))
        /\ ordOut.le <=> NumericLe(ua, ub)
        /\ ordOut.le <=> ordOut.cmp # "Greater"
        /\ ordOut.cmp \in {"Less", "Equal", "Greater"}
        /\ ordOut.cmp = "Equal" <=> ua = ub
        /\ ordOut.cmp = "Less" <=> (NumericLe(ua, ub) /\ ua # ub)
        /\ ordOut.cmp = "Greater" <=> ~NumericLe(ua, ub)
        /\ ordOut.cmp = "Less" <=> ordOut.rcmp = "Greater"
        /\ ordOut.cmp = "Greater" <=> ordOut.rcmp = "Less"

\* C10 witness: a <= b was found although a's least significant word is the larger one
C10_Witness ==
    /\ ordOut.done
    /\ ordOut.le
    /\ WordLess(ub[1], ua[1])
    /\ WordLess(ua[NumWords], ub[NumWords])

====
